---- MODULE Spec2Model ----
(***************************************************************************)
(* A model of stopt_2025.py: density-based structural topology            *)
(* optimization (problem setup, finite-element assembly on the free       *)
(* degrees of freedom, the compliance objective, the adjoint rule of the  *)
(* sparse solve, and the driver that feeds an external optimizer).        *)
(*                                                                         *)
(* Arrays are functions on 0 .. n-1, so every index below is the index    *)
(* the Python source uses.  Real-valued data is kept exact: densities     *)
(* are 0 (void) or 1 (solid), the element stiffness matrix is kept as     *)
(* its numerators over the common denominator 24 * PoissonDen, and the    *)
(* Gaussian kernel as fixed-point weights.                                 *)
(***************************************************************************)
EXTENDS Integers, Sequences, FiniteSets, TLC

VARIABLES
    pc,          \* position of the finite-element pipeline
    nely, nelx,  \* grid size: rows and columns of elements
    normals,     \* boundary flags, shape (nelx+1, nely+1, 2)
    freedofs,    \* args.freedofs
    fixdofs,     \* args.fixdofs
    mat,         \* material keywords penal, e_min, e_0 passed to displace/compliance
    x_phys,      \* physical density grid, shape (nely, nelx)
    index_map,   \* displace: inverse of concat(freedofs, fixdofs)
    keep,        \* displace: mask over the 64*nel triplets
    a_entries,   \* solve_coo argument 0: matrix entries (COO values)
    a_indices,   \* solve_coo argument 1: 2 x m index array
    b,           \* solve_coo argument 2: right-hand side
    ans,         \* value returned by solve_coo
    solve_called, \* whether the last displace entered solve_coo
    u,           \* full-length displacement returned by displace
    c,           \* value returned by compliance
    err,         \* exception that ended the last call, or "none"
    stdout,      \* lines printed so far
    sym_pos,     \* solve_coo keyword sym_pos
    argnum,      \* argument of solve_coo whose gradient autograd asks for
    grad_ans,    \* gradient of the output handed to the vjp
    lambda_,     \* adjoint solution computed by the vjp
    vjp,         \* value returned by the vjp
    cfg,         \* args of fast_stopt (densities in tenths)
    losses,      \* fast_stopt: losses
    frames,      \* fast_stopt: frames
    obj_xs,      \* design vectors the optimizer passed to the objective callback
    nevals,      \* objective evaluations the optimizer has counted
    ncalls,      \* callbacks (objective and constraint) that have returned
    maxeval,     \* opt.set_maxeval
    result,      \* value returned by fast_stopt
    pdb_inputs   \* debugger commands read from the terminal

fe_vars == <<nely, nelx, normals, freedofs, fixdofs, mat, x_phys, index_map,
             keep, solve_called, u, c>>

solve_vars == <<a_entries, a_indices, b, ans>>

grad_vars == <<sym_pos, argnum, grad_ans, lambda_, vjp>>

opt_vars == <<cfg, losses, frames, obj_xs, nevals, ncalls, maxeval, result, pdb_inputs>>

vars == <<pc, err, stdout, fe_vars, solve_vars, grad_vars, opt_vars>>

----------------------------------------------------------------------------
(* Bounds of the model *)

\* besides the normals of mbb_beam, normals arrays have at most MaxFlagged
\* nonzero flags, or at most one zero flag
MaxFlagged == 1

\* density grids have at most MaxSolid solid elements
MaxSolid == 1

\* grids <<nely, nelx>> the pipeline is run on
Grids == {<<1, 1>>, <<1, 2>>, <<2, 1>>, <<2, 2>>}

\* values the entries of a solve result are drawn from (see SolveResults)
SolMod == 3

\* the keywords penal, e_min, e_0 of displace and compliance, in units of e_min
Materials == {[penal |-> 3, e_min |-> 1, e_0 |-> 3]}

\* a partition handed to displace directly has at most MaxDefect DOFs in both
\* arrays and at most MaxDefect DOFs in neither
MaxDefect == 1

----------------------------------------------------------------------------
(* numpy helpers *)

Range0(n) == 0 .. (n - 1)

\* the function f with its values computed once (TLC otherwise re-evaluates
\* the body of a function constructor at every application)
Mat(f) == f @@ <<>>

Len0(arr) == Cardinality(DOMAIN arr)

EmptyArr == [k \in {} |-> 0]

Push(arr, v) == Mat([k \in 0 .. Len0(arr) |-> IF k < Len0(arr) THEN arr[k] ELSE v])

SetOf(arr) == {arr[k] : k \in DOMAIN arr}

np_arange(n) == Mat([k \in Range0(n) |-> k])

np_zeros(n) == Mat([k \in Range0(n) |-> 0])

np_concatenate(p, q) ==
    LET np == Len0(p)
    IN  Mat([k \in Range0(np + Len0(q)) |-> IF k < np THEN p[k] ELSE q[k - np]])

\* np.isin(arr, test): elementwise membership
np_isin(arr, test) ==
    LET S == SetOf(test)
    IN  Mat([k \in DOMAIN arr |-> arr[k] \in S])

SetMin(S) == CHOOSE m \in S : \A s \in S : m <= s

RECURSIVE SortSet(_, _)
SortSet(S, acc) ==
    IF S = {} THEN acc ELSE SortSet(S \ {SetMin(S)}, Push(acc, SetMin(S)))

\* np.sort(list(S)) of a Python set S
np_sort(S) == SortSet(S, EmptyArr)

RECURSIVE NonzeroScan(_, _, _)
NonzeroScan(flat, k, acc) ==
    IF k = Len0(flat) THEN acc
    ELSE NonzeroScan(flat, k + 1, IF flat[k] # 0 THEN Push(acc, k) ELSE acc)

\* np.flatnonzero: the indices of the nonzero entries, in index order
np_flatnonzero(flat) == NonzeroScan(flat, 0, EmptyArr)

\* a sequence as an array on 0 .. n-1
Arr0(seq) == Mat([k \in Range0(Len(seq)) |-> seq[k + 1]])

\* the entries of arr at the positions lo .. hi-1 where mask holds, in order
RECURSIVE SelectRange(_, _, _, _)
SelectRange(arr, mask, lo, hi) ==
    IF hi <= lo THEN <<>>
    ELSE IF hi = lo + 1 THEN (IF mask[lo] THEN <<arr[lo]>> ELSE <<>>)
    ELSE LET mid == (lo + hi) \div 2
         IN  SelectRange(arr, mask, lo, mid) \o SelectRange(arr, mask, mid, hi)

\* arr[mask] for a boolean mask
np_select(arr, mask) == Arr0(SelectRange(arr, mask, 0, Len0(arr)))

\* arr[idx] for an integer index array (all indices in range)
np_take(arr, idx) == Mat([k \in DOMAIN idx |-> arr[idx[k]]])

\* whether arr[idx] raises IndexError
IndexOutOfRange(idx, n) == \E k \in DOMAIN idx : idx[k] >= n

RECURSIVE SumOver(_, _)
SumOver(f, S) ==
    IF S = {} THEN 0
    ELSE LET s == CHOOSE s \in S : TRUE IN f[s] + SumOver(f, S \ {s})

\* np.meshgrid(range(n0), range(n1)), default 'xy' indexing: two arrays of
\* shape (n1, n0); the first varies along axis 1, the second along axis 0
np_meshgrid(n0, n1) ==
    << Mat([ij \in Range0(n1) \X Range0(n0) |-> ij[2]]),
       Mat([ij \in Range0(n1) \X Range0(n0) |-> ij[1]]) >>

\* arr.reshape(-1, 1) of a 2-D array with ncols columns, as a flat array
reshape_flat(arr, nrows, ncols) ==
    Mat([e \in Range0(nrows * ncols) |-> arr[<<e \div ncols, e % ncols>>]])

----------------------------------------------------------------------------
(* Problem setup *)

NumDofs(width, height) == 2 * (width + 1) * (height + 1)

\* normals.ravel(): C order over the shape (width+1, height+1, 2)
ravel3(arr, width, height) ==
    Mat([d \in Range0(NumDofs(width, height)) |->
            arr[<<d \div (2 * (height + 1)), (d \div 2) % (height + 1), d % 2>>]])

get_args_alldofs(width, height) == np_arange(2 * (width + 1) * (height + 1))

get_args_fixdofs(nrm, width, height) == np_flatnonzero(ravel3(nrm, width, height))

\* a get_args that forgets to take the fixed DOFs out of the free ones
get_args_freedofs_keepall(nrm, width, height) ==
    np_sort(SetOf(get_args_alldofs(width, height)))

get_args_freedofs(nrm, width, height) ==
    np_sort(SetOf(get_args_alldofs(width, height))
              \ SetOf(get_args_fixdofs(nrm, width, height)))

\* mbb_beam: a unit load on the y DOF of node (0, 0)
forces_ravel(width, height) ==
    Mat([d \in Range0(NumDofs(width, height)) |-> IF d = 1 THEN -1 ELSE 0])

young_modulus(x, e_0, e_min, p) == e_min + (x ^ p) * (e_0 - e_min)

----------------------------------------------------------------------------
(* Element stiffness matrix *)

\* 'poisson': 0.3
PoissonNum == 3
PoissonDen == 10

\* the coefficients k[0..7] of get_stiffness_matrix over the denominator
\* 24 * PoissonDen
KCoef ==
    [m \in Range0(8) |->
        CASE m = 0 -> 12 * PoissonDen - 4 * PoissonNum
          [] m = 1 -> 3 * PoissonDen + 3 * PoissonNum
          [] m = 2 -> -6 * PoissonDen - 2 * PoissonNum
          [] m = 3 -> -3 * PoissonDen + 9 * PoissonNum
          [] m = 4 -> -6 * PoissonDen + 2 * PoissonNum
          [] m = 5 -> -3 * PoissonDen - 3 * PoissonNum
          [] m = 6 -> 4 * PoissonNum
          [] m = 7 -> 3 * PoissonDen - 9 * PoissonNum]

KLayout ==
    << <<0, 1, 2, 3, 4, 5, 6, 7>>,
       <<1, 0, 7, 6, 5, 4, 3, 2>>,
       <<2, 7, 0, 5, 6, 3, 4, 1>>,
       <<3, 6, 5, 0, 7, 2, 1, 4>>,
       <<4, 5, 6, 7, 0, 1, 2, 3>>,
       <<5, 4, 3, 2, 1, 0, 7, 6>>,
       <<6, 3, 4, 1, 2, 7, 0, 5>>,
       <<7, 2, 1, 4, 3, 6, 5, 0>> >>

\* ke in units of e / ((1 - nu^2) * 24 * PoissonDen)
get_stiffness_matrix ==
    Mat([pq \in Range0(8) \X Range0(8) |-> KCoef[KLayout[pq[1] + 1][pq[2] + 1]]])

----------------------------------------------------------------------------
(* Global assembly *)

\* the 8 global DOF ids of each element, shape (nel, 8): edof.T[0] in get_k
get_k_edof(ny, nx) ==
    LET mg  == np_meshgrid(ny, nx)
        ely == reshape_flat(mg[1], nx, ny)
        elx == reshape_flat(mg[2], nx, ny)
        n1  == Mat([e \in DOMAIN ely |-> (ny + 1) * (elx[e] + 0) + (ely[e] + 0)])
        n2  == Mat([e \in DOMAIN ely |-> (ny + 1) * (elx[e] + 1) + (ely[e] + 0)])
        n3  == Mat([e \in DOMAIN ely |-> (ny + 1) * (elx[e] + 1) + (ely[e] + 1)])
        n4  == Mat([e \in DOMAIN ely |-> (ny + 1) * (elx[e] + 0) + (ely[e] + 1)])
    IN  Mat([e \in DOMAIN ely |->
            Mat([a \in Range0(8) |->
                CASE a = 0 -> 2 * n1[e]
                  [] a = 1 -> 2 * n1[e] + 1
                  [] a = 2 -> 2 * n2[e]
                  [] a = 3 -> 2 * n2[e] + 1
                  [] a = 4 -> 2 * n3[e]
                  [] a = 5 -> 2 * n3[e] + 1
                  [] a = 6 -> 2 * n4[e]
                  [] a = 7 -> 2 * n4[e] + 1])])

\* a kd that reshapes stiffness without transposing it first
get_k_kd_untransposed(stiffness, ny, nx) == reshape_flat(stiffness, ny, nx)

\* kd = stiffness.T.reshape(nelx*nely, 1, 1)
get_k_kd(stiffness, ny, nx) ==
    LET stT == Mat([ij \in Range0(nx) \X Range0(ny) |-> stiffness[<<ij[2], ij[1]>>]])
    IN  reshape_flat(stT, nx, ny)

\* get_k returns (value_list, y_list, x_list)
get_k(stiffness, ke, ny, nx) ==
    LET edof       == get_k_edof(ny, nx)
        kd         == get_k_kd(stiffness, ny, nx)
        T          == Range0(64 * nx * ny)
        \* anp.repeat(edof, 8)
        x_list     == Mat([t \in T |-> edof[t \div 64][(t \div 8) % 8]])
        \* anp.tile(edof, 8).flatten()
        y_list     == Mat([t \in T |-> edof[t \div 64][t % 8]])
        \* (kd * anp.tile(ke, kd.shape)).flatten()
        value_list == Mat([t \in T |-> kd[t \div 64] * ke[<<(t \div 8) % 8, t % 8>>]])
    IN  <<value_list, y_list, x_list>>

\* the values np can leave in inverse_perm[d]: the position of d in indices;
\* 0 where d is not hit; any of its positions where d is hit more than once
\* (numpy leaves the order of repeated assignments unspecified)
InversePermTargets(indices, d) ==
    LET hits == {k \in DOMAIN indices : indices[k] = d}
    IN  IF hits = {} THEN {0} ELSE hits

RECURSIVE InversePermScan(_, _, _)
InversePermScan(indices, d, accs) ==
    IF d = Len0(indices) THEN accs
    ELSE InversePermScan(indices, d + 1,
            {Push(acc, v) : acc \in accs, v \in InversePermTargets(indices, d)})

\* inverse_perm[indices] = arange(len(indices)) raises IndexError
inverse_permutation_raises(indices) == IndexOutOfRange(indices, Len0(indices))

\* the arrays inverse_permutation can return
inverse_permutation(indices) == InversePermScan(indices, 0, {EmptyArr})

get_dof_indices_keep(free, k_xlist, k_ylist) ==
    LET inx == np_isin(k_xlist, free)
        iny == np_isin(k_ylist, free)
    IN  Mat([t \in DOMAIN k_xlist |-> inx[t] /\ iny[t]])

\* anp.stack([i, j]) of _get_dof_indices
get_dof_indices_stack(imap, kp, k_xlist, k_ylist) ==
    LET i == np_select(np_take(imap, k_ylist), kp)
        j == np_select(np_take(imap, k_xlist), kp)
    IN  <<i, j>>

\* scipy.sparse.coo_matrix((entries, indices), shape=(size, size)).tocsc():
\* entries with the same (row, col) are summed
coo_matrix(entries, indices, size) ==
    LET in_row == Mat([r \in Range0(size) |-> {k \in DOMAIN entries : indices[1][k] = r}])
    IN  Mat([rc \in Range0(size) \X Range0(size) |->
            SumOver(entries, {k \in in_row[rc[1]] : indices[2][k] = rc[2]})])

\* coo_matrix raises ValueError for an index outside the shape
coo_matrix_raises(indices, size) ==
    IndexOutOfRange(indices[1], size) \/ IndexOutOfRange(indices[2], size)

\* The solve of the assembled system is numerical; displace relies on one
\* thing only: splu(a).solve(b) returns an array shaped like b.  The
\* candidates have pairwise different neighbouring entries.
SolveResults(n) ==
    {Mat([k \in Range0(n) |-> 1 + ((k + s) % SolMod)]) : s \in {0, 1}}

\* a displace that pads the zeros of the fixed DOFs in front of the solution
displace_unpermute_zeros_first(u_nonzero, fix, imap) ==
    np_take(np_concatenate(np_zeros(Len0(fix)), u_nonzero), imap)

\* anp.concatenate([u_nonzero, anp.zeros(len(fixdofs))])[index_map]
displace_unpermute(u_nonzero, fix, imap) ==
    np_take(np_concatenate(u_nonzero, np_zeros(Len0(fix))), imap)

----------------------------------------------------------------------------
(* Compliance *)

\* an all_ixs that lists the nodes in the order n1, n2, n4, n3
compliance_all_ixs_swapped(ny, nx) ==
    LET mg  == np_meshgrid(ny, nx)
        ely == mg[1]
        elx == mg[2]
        n1  == Mat([ij \in DOMAIN ely |-> (ny + 1) * (elx[ij] + 0) + (ely[ij] + 0)])
        n2  == Mat([ij \in DOMAIN ely |-> (ny + 1) * (elx[ij] + 1) + (ely[ij] + 0)])
        n4  == Mat([ij \in DOMAIN ely |-> (ny + 1) * (elx[ij] + 1) + (ely[ij] + 1)])
        n3  == Mat([ij \in DOMAIN ely |-> (ny + 1) * (elx[ij] + 0) + (ely[ij] + 1)])
    IN  Mat([aij \in Range0(8) \X Range0(nx) \X Range0(ny) |->
            LET ij == <<aij[2], aij[3]>>
            IN  CASE aij[1] = 0 -> 2 * n1[ij]
                  [] aij[1] = 1 -> 2 * n1[ij] + 1
                  [] aij[1] = 2 -> 2 * n2[ij]
                  [] aij[1] = 3 -> 2 * n2[ij] + 1
                  [] aij[1] = 4 -> 2 * n3[ij]
                  [] aij[1] = 5 -> 2 * n3[ij] + 1
                  [] aij[1] = 6 -> 2 * n4[ij]
                  [] aij[1] = 7 -> 2 * n4[ij] + 1])

\* all_ixs of compliance, shape (8, nelx, nely)
compliance_all_ixs(ny, nx) ==
    LET mg  == np_meshgrid(ny, nx)
        ely == mg[1]
        elx == mg[2]
        n1  == Mat([ij \in DOMAIN ely |-> (ny + 1) * (elx[ij] + 0) + (ely[ij] + 0)])
        n2  == Mat([ij \in DOMAIN ely |-> (ny + 1) * (elx[ij] + 1) + (ely[ij] + 0)])
        n3  == Mat([ij \in DOMAIN ely |-> (ny + 1) * (elx[ij] + 1) + (ely[ij] + 1)])
        n4  == Mat([ij \in DOMAIN ely |-> (ny + 1) * (elx[ij] + 0) + (ely[ij] + 1)])
    IN  Mat([aij \in Range0(8) \X Range0(nx) \X Range0(ny) |->
            LET ij == <<aij[2], aij[3]>>
            IN  CASE aij[1] = 0 -> 2 * n1[ij]
                  [] aij[1] = 1 -> 2 * n1[ij] + 1
                  [] aij[1] = 2 -> 2 * n2[ij]
                  [] aij[1] = 3 -> 2 * n2[ij] + 1
                  [] aij[1] = 4 -> 2 * n3[ij]
                  [] aij[1] = 5 -> 2 * n3[ij] + 1
                  [] aij[1] = 6 -> 2 * n4[ij]
                  [] aij[1] = 7 -> 2 * n4[ij] + 1])

compliance(xp, uu, ke, penal, e_min, e_0, ny, nx) ==
    LET all_ixs    == compliance_all_ixs(ny, nx)
        u_selected == Mat([aij \in DOMAIN all_ixs |-> uu[all_ixs[aij]]])
        \* einsum('ij,jkl->ikl', ke, u_selected)
        ke_u       == Mat([ikl \in DOMAIN all_ixs |->
                        SumOver([j \in Range0(8) |->
                                    ke[<<ikl[1], j>>] * u_selected[<<j, ikl[2], ikl[3]>>]],
                                Range0(8))])
        \* einsum('ijk,ijk->jk', u_selected, ke_u)
        ce         == Mat([jk \in Range0(nx) \X Range0(ny) |->
                        SumOver([i \in Range0(8) |->
                                    u_selected[<<i, jk[1], jk[2]>>] * ke_u[<<i, jk[1], jk[2]>>]],
                                Range0(8))])
        ceT        == Mat([rc \in Range0(ny) \X Range0(nx) |-> ce[<<rc[2], rc[1]>>]])
        C          == Mat([rc \in Range0(ny) \X Range0(nx) |->
                        young_modulus(xp[rc], e_0, e_min, penal) * ceT[rc]])
    IN  SumOver(C, DOMAIN C)

----------------------------------------------------------------------------
(* The finite-element pipeline: get_args, then displace and compliance once
   per evaluation of the objective *)

FlagSets(n) ==
    {S \in SUBSET Range0(n) : Cardinality(S) <= MaxFlagged \/ n - Cardinality(S) <= 1}

\* mbb_beam(width, height, y=1, x=0): normals[-1, -1, y] = 1, normals[0, :, x] = 1
mbb_beam_normals(width, height) ==
    Mat([ijk \in (0 .. width) \X (0 .. height) \X {0, 1} |->
        IF \/ (ijk[1] = width /\ ijk[2] = height /\ ijk[3] = 1)
           \/ (ijk[1] = 0 /\ ijk[3] = 0)
        THEN 1 ELSE 0])

\* the normals arrays of shape (width+1, height+1, 2) with flags 0 and 1
NormalsChoices(width, height) ==
    {mbb_beam_normals(width, height)} \cup
    {Mat([ijk \in (0 .. width) \X (0 .. height) \X {0, 1} |->
        IF (ijk[1] * (height + 1) + ijk[2]) * 2 + ijk[3] \in S THEN 1 ELSE 0])
     : S \in FlagSets(NumDofs(width, height))}

XPhysChoices(ny, nx) ==
    {Mat([rc \in Range0(ny) \X Range0(nx) |-> IF rc \in S THEN 1 ELSE 0])
     : S \in {S \in SUBSET (Range0(ny) \X Range0(nx)) : Cardinality(S) <= MaxSolid}}

NoGrid == [rc \in {} |-> 0]

FEIdle ==
    /\ x_phys = NoGrid
    /\ index_map = EmptyArr
    /\ keep = EmptyArr
    /\ a_entries = EmptyArr
    /\ a_indices = <<EmptyArr, EmptyArr>>
    /\ b = EmptyArr
    /\ ans = EmptyArr
    /\ solve_called = FALSE
    /\ u = EmptyArr
    /\ c = 0
    /\ err = "none"

GradIdle ==
    /\ sym_pos = FALSE
    /\ argnum = 0
    /\ grad_ans = EmptyArr
    /\ lambda_ = EmptyArr
    /\ vjp = EmptyArr

OptIdle ==
    /\ cfg = [nely |-> 0, nelx |-> 0, mask |-> NoGrid, filter_width |-> 0,
              opt_steps |-> 0, print_every |-> 0, density |-> 0]
    /\ losses = <<>>
    /\ frames = <<>>
    /\ obj_xs = <<>>
    /\ nevals = 0
    /\ ncalls = 0
    /\ maxeval = 0
    /\ result = <<>>
    /\ pdb_inputs = 0

Init ==
    /\ pc = "setup"
    /\ \E g \in Grids : nely = g[1] /\ nelx = g[2]
    /\ normals \in NormalsChoices(nelx, nely)
    /\ mat \in Materials
    /\ freedofs = EmptyArr
    /\ fixdofs = EmptyArr
    /\ stdout = <<>>
    /\ FEIdle
    /\ GradIdle
    /\ OptIdle

\* get_args(normals, forces): width = nelx, height = nely
GetArgs ==
    /\ pc = "setup"
    /\ freedofs' = get_args_freedofs(normals, nelx, nely)
    /\ fixdofs' = get_args_fixdofs(normals, nelx, nely)
    /\ pc' = "ready"
    /\ UNCHANGED <<nely, nelx, normals, mat, x_phys, index_map, keep, a_entries,
                   a_indices, b, ans, solve_called, u, c, err>>
    /\ UNCHANGED <<stdout, grad_vars, opt_vars>>

\* what a call of displace leaves behind: the exception it raised ("none"
\* when it returned), whether solve_coo was entered, and its locals
DisplaceOutcome(exc, called, imap, kp, entries, indices, rhs, sol, uu) ==
    [exc |-> exc, solve_called |-> called, index_map |-> imap, keep |-> kp,
     a_entries |-> entries, a_indices |-> indices, b |-> rhs, ans |-> sol, u |-> uu]

\* displace(x_phys, ke, forces, freedofs, fixdofs, penal, e_min, e_0): the
\* outcomes of one call
displace(xp, ke, forces, free, fix, penal, e_min, e_0, ny, nx) ==
    LET stiffness == Mat([rc \in DOMAIN xp |-> young_modulus(xp[rc], e_0, e_min, penal)])
        k         == get_k(stiffness, ke, ny, nx)
        k_entries == k[1]
        k_ylist   == k[2]
        k_xlist   == k[3]
        cat       == np_concatenate(free, fix)
        none      == <<EmptyArr, EmptyArr>>
        \* _get_dof_indices(freedofs, fixdofs, k_ylist, k_xlist): its
        \* parameters k_xlist, k_ylist receive k_ylist, k_xlist
        kp        == get_dof_indices_keep(free, k_ylist, k_xlist)
        entries   == np_select(k_entries, kp)
        rhs       == np_take(forces, free)
        After(imap) ==
            IF IndexOutOfRange(k_xlist, Len0(imap)) \/ IndexOutOfRange(k_ylist, Len0(imap))
            THEN {DisplaceOutcome("IndexError", FALSE, imap, EmptyArr, EmptyArr, none,
                                  EmptyArr, EmptyArr, EmptyArr)}
            ELSE LET indices == get_dof_indices_stack(imap, kp, k_ylist, k_xlist)
                 IN  \* solve_coo(k_entries[keep], indices, forces[freedofs])
                     IF coo_matrix_raises(indices, Len0(rhs))
                     THEN {DisplaceOutcome("ValueError", TRUE, imap, kp, entries, indices,
                                           rhs, EmptyArr, EmptyArr)}
                     ELSE {DisplaceOutcome("RuntimeError", TRUE, imap, kp, entries, indices,
                                           rhs, EmptyArr, EmptyArr)}
                          \cup
                          {DisplaceOutcome("none", TRUE, imap, kp, entries, indices, rhs,
                                           sol, displace_unpermute(sol, fix, imap))
                           : sol \in SolveResults(Len0(rhs))}
    IN  IF inverse_permutation_raises(cat)
        THEN {DisplaceOutcome("IndexError", FALSE, EmptyArr, EmptyArr, EmptyArr, none,
                              EmptyArr, EmptyArr, EmptyArr)}
        ELSE UNION {After(imap) : imap \in inverse_permutation(cat)}

\* one evaluation of the objective calls displace on the physical density
Displace(xp) ==
    /\ pc = "ready"
    /\ x_phys' = xp
    /\ \E out \in displace(xp, get_stiffness_matrix, forces_ravel(nelx, nely), freedofs,
                           fixdofs, mat.penal, mat.e_min, mat.e_0, nely, nelx) :
            /\ pc' = IF out.exc = "none" THEN "displaced" ELSE "failed"
            /\ err' = out.exc
            /\ solve_called' = out.solve_called
            /\ index_map' = out.index_map
            /\ keep' = out.keep
            /\ a_entries' = out.a_entries
            /\ a_indices' = out.a_indices
            /\ b' = out.b
            /\ ans' = out.ans
            /\ u' = out.u
    /\ UNCHANGED <<nely, nelx, normals, mat, freedofs, fixdofs, c>>
    /\ UNCHANGED <<stdout, grad_vars, opt_vars>>

\* compliance(x_phys, u, ke, penal, e_min, e_0)
Compliance ==
    /\ pc = "displaced"
    /\ c' = compliance(x_phys, u, get_stiffness_matrix, mat.penal, mat.e_min, mat.e_0,
                       nely, nelx)
    /\ pc' = "done"
    /\ UNCHANGED <<nely, nelx, normals, freedofs, fixdofs, mat, x_phys, index_map, keep,
                   a_entries, a_indices, b, ans, solve_called, u, err>>
    /\ UNCHANGED <<stdout, grad_vars, opt_vars>>

\* the evaluation is over (objective returned or raised): nothing of it is
\* kept for the next one
EndEvaluation ==
    /\ pc \in {"done", "failed"}
    /\ pc' = "ready"
    /\ x_phys' = NoGrid
    /\ index_map' = EmptyArr
    /\ keep' = EmptyArr
    /\ a_entries' = EmptyArr
    /\ a_indices' = <<EmptyArr, EmptyArr>>
    /\ b' = EmptyArr
    /\ ans' = EmptyArr
    /\ solve_called' = FALSE
    /\ u' = EmptyArr
    /\ c' = 0
    /\ err' = "none"
    /\ UNCHANGED <<nely, nelx, normals, mat, freedofs, fixdofs>>
    /\ UNCHANGED <<stdout, grad_vars, opt_vars>>

Next ==
    \/ GetArgs
    \/ \E xp \in XPhysChoices(nely, nelx) : Displace(xp)
    \/ Compliance
    \/ EndEvaluation

Spec == Init /\ [][Next]_vars

----------------------------------------------------------------------------
(* displace called directly, on a 1 x 1 grid, with freedofs and fixdofs that
   get_args did not build: sorted arrays of DOF ids that may overlap or leave
   DOF ids out *)

DofArrayPairs(n) ==
    UNION {{<<np_sort(F), np_sort(X)>> :
               X \in {Y \in SUBSET Range0(n) :
                        /\ Cardinality(F \cap Y) <= MaxDefect
                        /\ Cardinality(Range0(n) \ (F \cup Y)) <= MaxDefect}} :
           F \in SUBSET Range0(n)}

DirectInit ==
    /\ pc = "ready"
    /\ nely = 1 /\ nelx = 1
    /\ normals = NoGrid
    /\ mat \in Materials
    /\ \E fx \in DofArrayPairs(NumDofs(1, 1)) : freedofs = fx[1] /\ fixdofs = fx[2]
    /\ stdout = <<>>
    /\ FEIdle
    /\ GradIdle
    /\ OptIdle

DirectNext ==
    \/ \E xp \in XPhysChoices(nely, nelx) : Displace(xp)
    \/ Compliance
    \/ EndEvaluation

SpecDirect == DirectInit /\ [][DirectNext]_vars

----------------------------------------------------------------------------
(* Properties of the finite-element pipeline *)

StrictlyAscending(arr) == \A k \in DOMAIN arr : k + 1 \in DOMAIN arr => arr[k] < arr[k + 1]

AllDofs == Range0(NumDofs(nelx, nely))

\* C1: after get_args, freedofs and fixdofs are disjoint, each is sorted
\* ascending without duplicates, their union is the set of all DOF ids
\* 0 .. 2*(width+1)*(height+1)-1, and their lengths add up to the DOF count.
C1_DofPartition ==
    pc # "setup" =>
        /\ SetOf(freedofs) \cap SetOf(fixdofs) = {}
        /\ StrictlyAscending(freedofs)
        /\ StrictlyAscending(fixdofs)
        /\ SetOf(freedofs) \cup SetOf(fixdofs) = AllDofs
        /\ Len0(freedofs) + Len0(fixdofs) = 2 * (nelx + 1) * (nely + 1)

C1_Witness ==
    /\ pc = "ready"
    /\ nelx = 2 /\ nely = 2
    /\ Len0(fixdofs) >= 2
    /\ Len0(freedofs) >= 2
    /\ \E d \in SetOf(fixdofs) : d + 1 \in SetOf(freedofs)

\* C2: displace returns a vector of the length of the DOF count that is 0 at
\* every fixed DOF id and holds the k-th entry of the solve result at the
\* k-th free DOF id.
C2_DisplacePlacesSolution ==
    pc \in {"displaced", "done"} =>
        /\ DOMAIN u = AllDofs
        /\ \A k \in DOMAIN fixdofs : u[fixdofs[k]] = 0
        /\ DOMAIN ans = DOMAIN freedofs
        /\ \A k \in DOMAIN freedofs : u[freedofs[k]] = ans[k]

C2_Witness ==
    /\ pc = "displaced"
    /\ Len0(fixdofs) >= 2
    /\ Len0(freedofs) >= 3
    /\ fixdofs[0] = 0
    /\ \E k \in DOMAIN freedofs : freedofs[k] > fixdofs[1] /\ ans[k] # ans[0]

\* the 8 global DOF ids of the element at grid position (row, col): nodes
\* counter-clockwise from the element's (0,0) corner, x then y DOF of each
RefEdof(row, col, ny) ==
    LET m1 == (ny + 1) * col + row
        m2 == (ny + 1) * (col + 1) + row
        m3 == m2 + 1
        m4 == m1 + 1
    IN  Arr0(<<2 * m1, 2 * m1 + 1, 2 * m2, 2 * m2 + 1,
               2 * m3, 2 * m3 + 1, 2 * m4, 2 * m4 + 1>>)

RefEdofs(ny, nx) ==
    Mat([rc \in Range0(ny) \X Range0(nx) |-> RefEdof(rc[1], rc[2], ny)])

\* the entry (r, cc) of the reference global matrix: the sum over the elements
\* and their local indices p, q with edof[p] = r and edof[q] = cc of
\* factor * ke[p, q]
RefK(factor, ke, eds, r, cc) ==
    SumOver([rc \in DOMAIN factor |->
                LET ps == {p \in Range0(8) : eds[rc][p] = r}
                    qs == {q \in Range0(8) : eds[rc][q] = cc}
                IN  IF ps = {} \/ qs = {} THEN 0
                    ELSE factor[rc] * SumOver([t \in ps \X qs |-> ke[t]], ps \X qs)],
            DOMAIN factor)

StateStiffness ==
    Mat([rc \in DOMAIN x_phys |-> young_modulus(x_phys[rc], mat.e_0, mat.e_min, mat.penal)])

\* C9: get_k emits 64 triplets per element; exactly those with row and column
\* in freedofs are kept; each kept index is the position of its DOF in
\* freedofs; the matrix built from the kept triplets (entries of one cell
\* summed) is the free-by-free submatrix of the reference global matrix, and
\* it is symmetric.
C9_ReducedSystem ==
    pc = "displaced" =>
        \A st \in {StateStiffness} :
        \A k \in {get_k(st, get_stiffness_matrix, nely, nelx)} :
        \A rows \in {np_select(k[3], keep)}, cols \in {np_select(k[2], keep)} :
        \A free \in {SetOf(freedofs)}, n \in {Len0(freedofs)} :
        \A a \in {coo_matrix(a_entries, a_indices, n)}, eds \in {RefEdofs(nely, nelx)} :
            /\ Len0(k[1]) = 64 * nelx * nely
            /\ DOMAIN keep = DOMAIN k[1]
            /\ \A t \in DOMAIN keep : keep[t] <=> (k[3][t] \in free /\ k[2][t] \in free)
            /\ a_entries = np_select(k[1], keep)
            /\ DOMAIN a_indices[1] = DOMAIN a_entries
            /\ DOMAIN a_indices[2] = DOMAIN a_entries
            /\ \A m \in DOMAIN a_entries :
                    /\ a_indices[1][m] \in Range0(n)
                    /\ a_indices[2][m] \in Range0(n)
                    /\ freedofs[a_indices[1][m]] = rows[m]
                    /\ freedofs[a_indices[2][m]] = cols[m]
            /\ \A r \in Range0(n), cc \in Range0(n) :
                    /\ a[<<r, cc>>] = RefK(st, get_stiffness_matrix, eds,
                                           freedofs[r], freedofs[cc])
                    /\ a[<<r, cc>>] = a[<<cc, r>>]

C9_Witness ==
    /\ pc = "displaced"
    /\ nelx = 2 /\ nely = 2
    /\ x_phys[<<0, 1>>] = 1
    /\ Len0(fixdofs) >= 2
    /\ Len0(a_entries) < Len0(keep)
    /\ \E m \in DOMAIN a_entries : a_indices[1][m] # a_indices[2][m] /\ a_entries[m] # 0

\* the element of get_k that takes the stiffness factor of grid position rc
GetKElementAt(rc, ny, nx) ==
    LET onehot == Mat([q \in Range0(ny) \X Range0(nx) |-> IF q = rc THEN 1 ELSE 0])
        kd     == get_k_kd(onehot, ny, nx)
    IN  CHOOSE e \in DOMAIN kd : kd[e] = 1

\* u_e^T ke u_e for the displacement gathered at the DOF ids ed
QuadraticForm(uu, ke, ed) ==
    SumOver([pq \in DOMAIN ke |-> uu[ed[pq[1]]] * ke[pq] * uu[ed[pq[2]]]], DOMAIN ke)

\* C10: compliance returns the sum over the elements of E(rho_e) * u_e^T ke u_e,
\* u_e gathered at the 8 DOF ids, in the local order, that get_k gives the
\* element, and rho_e the physical density at the element's grid position.
C10_Compliance ==
    pc = "done" =>
        \A edof \in {get_k_edof(nely, nelx)} :
            c = SumOver([rc \in DOMAIN x_phys |->
                            young_modulus(x_phys[rc], mat.e_0, mat.e_min, mat.penal)
                            * QuadraticForm(u, get_stiffness_matrix,
                                            edof[GetKElementAt(rc, nely, nelx)])],
                        DOMAIN x_phys)

C10_Witness ==
    /\ pc = "done"
    /\ nelx = 2 /\ nely = 1
    /\ x_phys[<<0, 1>>] = 1
    /\ c > 0
    /\ \E d \in DOMAIN u : u[d] = 0
    /\ \E d \in DOMAIN u : u[d] > 1

ValidPartition ==
    /\ SetOf(freedofs) \cap SetOf(fixdofs) = {}
    /\ SetOf(freedofs) \cup SetOf(fixdofs) = AllDofs

\* C7: when freedofs and fixdofs overlap or do not cover every DOF id, displace
\* ends with an error before it calls solve_coo (checked for the direct
\* calls of SpecDirect).
C7_MalformedPartitionRejected ==
    (pc # "ready" /\ ~ValidPartition) => (pc = "failed" /\ ~solve_called)

----------------------------------------------------------------------------
(* solve_coo and its reverse-mode rule, on 2 by 2 systems given as triplets *)

MaxTriplets == 3

EntryVals == {-1, 1, 2}

RhsChoices == {Arr0(<<1, 0>>), Arr0(<<1, -1>>)}

GradAnsChoices == {Arr0(<<1, 0>>), Arr0(<<0, 1>>), Arr0(<<1, 1>>)}

Det2(a) == a[<<0, 0>>] * a[<<1, 1>>] - a[<<0, 1>>] * a[<<1, 0>>]

\* splu(a).solve(rhs) for a 2 by 2 matrix whose determinant is 1 or -1 (so that
\* 1 / det = det and the solution is integral)
splu_solve(a, rhs) ==
    LET d == Det2(a)
    IN  Mat([k \in Range0(2) |->
            IF k = 0 THEN d * (a[<<1, 1>>] * rhs[0] - a[<<0, 1>>] * rhs[1])
                     ELSE d * (a[<<0, 0>>] * rhs[1] - a[<<1, 0>>] * rhs[0])])

get_solver(entries, indices, size, sp) == coo_matrix(entries, indices, size)

solve_coo(entries, indices, rhs, sp) ==
    splu_solve(get_solver(entries, indices, Len0(rhs), sp), rhs)

\* a_indices[::-1] exchanges the row list and the column list
grad_solve_coo_indices_same(indices, sp) == indices

grad_solve_coo_indices(indices, sp) ==
    IF sp THEN indices ELSE <<indices[2], indices[1]>>

grad_solve_coo_lambda(entries, indices, g, sp) ==
    solve_coo(entries, grad_solve_coo_indices(indices, sp), g, sp)

grad_solve_coo_entries(sol, lam, indices) ==
    Mat([k \in DOMAIN indices[1] |-> -(lam[indices[1][k]] * sol[indices[2][k]])])

\* defvjp(solve_coo, ...): one vjp maker per positional argument.  autograd
\* calls the maker of the requested argument as maker(ans, *args, **kwargs).
SolveCooVjpMakers ==
    <<[params |-> <<"ans", "a_entries", "a_indices", "b", "sym_pos">>, defaults |-> 1,
       body |-> "jvp", msg |-> ""],
      [params |-> <<>>, defaults |-> 0,
       body |-> "print", msg |-> "err: gradient undefined"],
      [params |-> <<>>, defaults |-> 0,
       body |-> "print", msg |-> "err: gradient not implemented"]>>

\* Python binds npos positional arguments and the keywords kw to the
\* parameters of a function without * or ** parameters; otherwise TypeError
PyCallBinds(maker, npos, kw) ==
    /\ npos <= Len(maker.params)
    /\ kw \subseteq {maker.params[i] : i \in (npos + 1) .. Len(maker.params)}
    /\ \A i \in 1 .. (Len(maker.params) - maker.defaults) :
           i <= npos \/ maker.params[i] \in kw

GradSystems ==
    UNION {{sys \in [entries : [Range0(m) -> EntryVals],
                     rows : [Range0(m) -> Range0(2)],
                     cols : [Range0(m) -> Range0(2)]] :
               Det2(coo_matrix(sys.entries, <<sys.rows, sys.cols>>, 2)) \in {1, -1}} :
           m \in 2 .. MaxTriplets}

GradInit ==
    /\ pc = "g_ready"
    /\ err = "none"
    /\ stdout = <<>>
    /\ nely = 0 /\ nelx = 0
    /\ normals = NoGrid
    /\ mat \in Materials
    /\ freedofs = EmptyArr
    /\ fixdofs = EmptyArr
    /\ x_phys = NoGrid
    /\ index_map = EmptyArr
    /\ keep = EmptyArr
    /\ solve_called = FALSE
    /\ u = EmptyArr
    /\ c = 0
    /\ \E sys \in GradSystems :
           /\ a_entries = Mat(sys.entries)
           /\ a_indices = <<Mat(sys.rows), Mat(sys.cols)>>
    /\ b = EmptyArr
    /\ ans = EmptyArr
    /\ sym_pos \in BOOLEAN
    /\ argnum = 0
    /\ grad_ans = EmptyArr
    /\ lambda_ = EmptyArr
    /\ vjp = EmptyArr
    /\ OptIdle

\* The forward call solve_coo(a_entries, a_indices, b, sym_pos=sym_pos) traced
\* by autograd for the gradient with respect to argument an: the primitive
\* computes ans, then autograd calls the vjp maker of that argument.
SolveCoo(rhs, an) ==
    /\ pc = "g_ready"
    /\ b' = rhs
    /\ argnum' = an
    /\ ans' = solve_coo(a_entries, a_indices, rhs, sym_pos)
    /\ IF PyCallBinds(SolveCooVjpMakers[an + 1], 4, {"sym_pos"})
       THEN IF SolveCooVjpMakers[an + 1].body = "jvp"
            THEN pc' = "g_traced" /\ err' = "none" /\ stdout' = stdout
            ELSE \* the maker prints and returns None; the backward pass calls None
                 /\ stdout' = Append(stdout, SolveCooVjpMakers[an + 1].msg)
                 /\ pc' = "g_failed"
                 /\ err' = "TypeError"
       ELSE pc' = "g_failed" /\ err' = "TypeError" /\ stdout' = stdout
    /\ UNCHANGED <<fe_vars, a_entries, a_indices, sym_pos, grad_ans, lambda_, vjp, opt_vars>>

\* The backward pass calls jvp(grad_ans)
Jvp(g) ==
    /\ pc = "g_traced"
    /\ grad_ans' = g
    /\ lambda_' = grad_solve_coo_lambda(a_entries, a_indices, g, sym_pos)
    /\ vjp' = grad_solve_coo_entries(ans, lambda_', a_indices)
    /\ pc' = "g_done"
    /\ UNCHANGED <<err, stdout, fe_vars, solve_vars, sym_pos, argnum, opt_vars>>

GradNext ==
    \/ \E rhs \in RhsChoices, an \in 0 .. 2 : SolveCoo(rhs, an)
    \/ \E g \in GradAnsChoices : Jvp(g)

SpecGrad == GradInit /\ [][GradNext]_vars

----------------------------------------------------------------------------
(* Properties of solve_coo's gradient *)

MatVec(a, x) ==
    Mat([r \in Range0(2) |-> a[<<r, 0>>] * x[0] + a[<<r, 1>>] * x[1]])

DenseTranspose(a) == Mat([rc \in DOMAIN a |-> a[<<rc[2], rc[1]>>]])

StateMatrix == coo_matrix(a_entries, a_indices, 2)

\* C5: after the backward pass, with A the matrix the triplets sum to, ans
\* solves A ans = b, lambda_ solves A lambda_ = grad_ans when sym_pos and
\* transpose(A) lambda_ = grad_ans otherwise, and the sensitivity returned for
\* triplet k is -lambda_[row_k] * ans[col_k].
C5_EntriesVjp ==
    pc = "g_done" =>
        /\ MatVec(StateMatrix, ans) = b
        /\ MatVec(IF sym_pos THEN StateMatrix ELSE DenseTranspose(StateMatrix), lambda_)
               = grad_ans
        /\ DOMAIN vjp = DOMAIN a_entries
        /\ \A k \in DOMAIN a_entries :
               vjp[k] = -(lambda_[a_indices[1][k]] * ans[a_indices[2][k]])

C5_Witness ==
    /\ pc = "g_done"
    /\ ~sym_pos
    /\ StateMatrix # DenseTranspose(StateMatrix)
    /\ MatVec(StateMatrix, lambda_) # grad_ans
    /\ \E k \in DOMAIN vjp : vjp[k] # 0
    /\ \E k \in DOMAIN a_entries : a_indices[1][k] # a_indices[2][k]

Reported(message) == err = message \/ \E i \in DOMAIN stdout : stdout[i] = message

\* C8: a gradient request for a_indices ends with 'gradient undefined' and one
\* for b with 'gradient not implemented'.
C8_UnsupportedGradientReported ==
    /\ (pc = "g_failed" /\ argnum = 1) => Reported("err: gradient undefined")
    /\ (pc = "g_failed" /\ argnum = 2) => Reported("err: gradient not implemented")

----------------------------------------------------------------------------
(* fast_stopt: the driver around the external optimizer.  Densities are in
   tenths; the objective value of a design vector is kept symbolically. *)

MaxOptSteps == 2

MaxConstraintCalls == 1

DesignVals == {4, 10}

DesignVectors(n) == {Mat(x) : x \in [Range0(n) -> DesignVals]}

OptGrids == {<<1, 2>>, <<2, 1>>}

MaskChoices(ny, nx) ==
    {Mat([rc \in Range0(ny) \X Range0(nx) |-> IF rc \in Z THEN 0 ELSE 1]) :
        Z \in {{}, {<<0, 0>>}}}

OptConfigs ==
    UNION {{[nely |-> g[1], nelx |-> g[2], mask |-> m, filter_width |-> w,
             opt_steps |-> s, print_every |-> 2, density |-> 4] :
               m \in MaskChoices(g[1], g[2]), w \in {0, 1}, s \in 1 .. MaxOptSteps} :
           g \in OptGrids}

reshape(x, args) ==
    Mat([rc \in Range0(args.nely) \X Range0(args.nelx) |-> x[rc[1] * args.nelx + rc[2]]])

\* scipy.ndimage.gaussian_filter(x, width, mode='reflect'): no filtering for
\* width 0; for width 1 the kernel exp(-k^2 / 2), k = -4 .. 4, in thousandths
GaussKernel(width) == IF width = 0 THEN <<1>> ELSE <<1000, 607, 135, 11, 0>>

KernelWeight(kernel, k) == kernel[(IF k < 0 THEN -k ELSE k) + 1]

KernelSum(kernel) ==
    SumOver([k \in 0 .. (2 * Len(kernel) - 2) |-> KernelWeight(kernel, k - (Len(kernel) - 1))],
            0 .. (2 * Len(kernel) - 2))

\* mode='reflect': (d c b a | a b c d | d c b a)
Reflect(j, n) ==
    LET m == (j + 2 * n * Len(GaussKernel(1))) % (2 * n)
    IN  IF m < n THEN m ELSE 2 * n - 1 - m

Correlate1d(grid, kernel, axis, ny, nx) ==
    LET R == Len(kernel) - 1
    IN  Mat([rc \in Range0(ny) \X Range0(nx) |->
            SumOver([k \in 0 .. (2 * R) |->
                        KernelWeight(kernel, k - R) *
                        grid[IF axis = 0 THEN <<Reflect(rc[1] + k - R, ny), rc[2]>>
                                         ELSE <<rc[1], Reflect(rc[2] + k - R, nx)>>]],
                    0 .. (2 * R))])

\* the filtered field as numerators over one denominator
gaussian_filter(grid, width, ny, nx) ==
    [num |-> Correlate1d(Correlate1d(grid, GaussKernel(width), 0, ny, nx),
                         GaussKernel(width), 1, ny, nx),
     den |-> KernelSum(GaussKernel(width)) * KernelSum(GaussKernel(width))]

physical_density(x, args) ==
    gaussian_filter(Mat([rc \in Range0(args.nely) \X Range0(args.nelx) |->
                            args.mask[rc] * reshape(x, args)[rc]]),
                    args.filter_width, args.nely, args.nelx)

fast_stopt_x0(args) == Mat([k \in Range0(args.nely * args.nelx) |-> args.density])

\* wrap_autograd_func(objective_fn, losses, frames) and wrap_autograd_func(constraint)
ObjectiveWrapper == [func |-> "objective", losses |-> TRUE, frames |-> TRUE]

ConstraintWrapperTraced == [func |-> "constraint", losses |-> TRUE, frames |-> TRUE]

ConstraintWrapper == [func |-> "constraint", losses |-> FALSE, frames |-> FALSE]

\* frames.append(reshape(x).copy())
wrapper_snapshot(x, args) == reshape(x, args)

\* wrapper(x, grad): the value (and, when grad.size > 0, the gradient written
\* into grad) goes back to the optimizer
Wrapper(w, x, want_grad) ==
    /\ losses' = IF w.losses THEN Append(losses, [func |-> w.func, at |-> x]) ELSE losses
    /\ frames' = IF w.frames THEN Append(frames, wrapper_snapshot(x, cfg)) ELSE frames
    /\ stdout' = IF w.frames /\ Len(frames') % cfg.print_every = 0
                 THEN Append(stdout, "step")
                 ELSE stdout
    /\ ncalls' = ncalls + 1

OptInit ==
    /\ pc = "o_start"
    /\ err = "none"
    /\ stdout = <<>>
    /\ nely = 0 /\ nelx = 0
    /\ normals = NoGrid
    /\ mat \in Materials
    /\ freedofs = EmptyArr
    /\ fixdofs = EmptyArr
    /\ FEIdle
    /\ GradIdle
    /\ cfg \in OptConfigs
    /\ losses = <<>>
    /\ frames = <<>>
    /\ obj_xs = <<>>
    /\ nevals = 0
    /\ ncalls = 0
    /\ maxeval = 0
    /\ result = <<>>
    /\ pdb_inputs = 0

\* fast_stopt up to pdb.set_trace(), where the debugger waits for a command
FastStoptEnter ==
    /\ pc = "o_start"
    /\ pc' = "o_pdb"
    /\ UNCHANGED <<err, stdout, fe_vars, solve_vars, grad_vars, opt_vars>>

\* the debugger reads 'continue': the optimizer is set up and optimize starts
PdbContinue ==
    /\ pc = "o_pdb"
    /\ pdb_inputs' = pdb_inputs + 1
    /\ stdout' = Append(stdout, "Optimizing a problem")
    /\ maxeval' = cfg.opt_steps + 1
    /\ pc' = "o_optimizing"
    /\ UNCHANGED <<err, fe_vars, solve_vars, grad_vars, cfg, losses, frames, obj_xs,
                   nevals, ncalls, result>>

\* the debugger reads 'quit' or the end of its input: BdbQuit
PdbQuit ==
    /\ pc = "o_pdb"
    /\ pdb_inputs' = pdb_inputs + 1
    /\ pc' = "o_raised"
    /\ err' = "BdbQuit"
    /\ UNCHANGED <<stdout, fe_vars, solve_vars, grad_vars, cfg, losses, frames, obj_xs,
                   nevals, ncalls, maxeval, result>>

\* the optimizer evaluates the objective, first at the start vector
ObjectiveCallback(x, want_grad) ==
    /\ pc = "o_optimizing"
    /\ nevals < maxeval
    /\ nevals = 0 => x = fast_stopt_x0(cfg)
    /\ Wrapper(ObjectiveWrapper, x, want_grad)
    /\ obj_xs' = Append(obj_xs, x)
    /\ nevals' = nevals + 1
    /\ UNCHANGED <<pc, err, fe_vars, solve_vars, grad_vars, cfg, maxeval, result, pdb_inputs>>

\* objective_fn raises inside the callback: nothing is appended and the
\* exception leaves optimize and fast_stopt
ObjectiveRaises(x) ==
    /\ pc = "o_optimizing"
    /\ nevals < maxeval
    /\ nevals = 0 => x = fast_stopt_x0(cfg)
    /\ pc' = "o_raised"
    /\ err' = "RuntimeError"
    /\ UNCHANGED <<stdout, fe_vars, solve_vars, grad_vars, opt_vars>>

\* the optimizer evaluates the inequality constraint
ConstraintCallback(x, want_grad) ==
    /\ pc = "o_optimizing"
    /\ ncalls - nevals < MaxConstraintCalls
    /\ Wrapper(ConstraintWrapper, x, want_grad)
    /\ UNCHANGED <<pc, err, fe_vars, solve_vars, grad_vars, cfg, obj_xs, nevals, maxeval,
                   result, pdb_inputs>>

\* optimize returns (converged, or maxeval reached)
OptimizeReturns ==
    /\ pc = "o_optimizing"
    /\ nevals >= 1
    /\ result' = <<losses, frames[Len(frames)], frames>>
    /\ pc' = "o_returned"
    /\ UNCHANGED <<err, stdout, fe_vars, solve_vars, grad_vars, cfg, losses, frames, obj_xs,
                   nevals, ncalls, maxeval, pdb_inputs>>

OptNext ==
    \/ FastStoptEnter
    \/ PdbContinue
    \/ PdbQuit
    \/ \E x \in DesignVectors(cfg.nely * cfg.nelx), g \in BOOLEAN : ObjectiveCallback(x, g)
    \/ \E x \in DesignVectors(cfg.nely * cfg.nelx) : ObjectiveRaises(x)
    \/ \E x \in DesignVectors(cfg.nely * cfg.nelx), g \in BOOLEAN : ConstraintCallback(x, g)
    \/ OptimizeReturns

SpecOpt == OptInit /\ [][OptNext]_vars

----------------------------------------------------------------------------
(* Properties of the driver *)

IsPrefix(s, t) == Len(s) <= Len(t) /\ \A i \in 1 .. Len(s) : s[i] = t[i]

\* C3 as stated: after any sequence of callbacks, losses and frames are as
\* long as the number of callbacks (objective and constraint) made so far.
C3_EveryCallbackAppends ==
    Len(losses) = ncalls /\ Len(frames) = ncalls

\* C3, amended: losses and frames only grow at the end; an objective callback
\* that returns appends exactly one loss and one snapshot, a constraint
\* callback appends nothing; so both are as long as the number of objective
\* callbacks that returned.
C3_ObjectiveCallbackAppends ==
    /\ [](Len(losses) = nevals /\ Len(frames) = nevals)
    /\ [][/\ IsPrefix(losses, losses') /\ IsPrefix(frames, frames')
          /\ Len(losses') - Len(losses) = nevals' - nevals
          /\ Len(frames') - Len(frames) = nevals' - nevals
          /\ nevals' - nevals \in {0, 1}
          /\ (nevals' = nevals + 1) =>
                 losses'[Len(losses')] = [func |-> "objective", at |-> obj_xs'[nevals']]
          /\ (ncalls' = ncalls + 1 /\ nevals' = nevals) =>
                 (losses' = losses /\ frames' = frames)]_vars

C3_Witness ==
    /\ pc = "o_optimizing"
    /\ nevals = 2
    /\ ncalls = 3
    /\ Len(losses) = 2
    /\ Len(frames) = 2

\* the field a snapshot holds (tenths) equals a filtered field (numerators
\* over a denominator)
SameField(raw, filtered) ==
    /\ DOMAIN raw = DOMAIN filtered.num
    /\ \A rc \in DOMAIN raw : raw[rc] * filtered.den = filtered.num[rc]

\* C4 as stated: every snapshot is the physical density field of the design
\* vector of its callback, and the field fast_stopt returns is the physical
\* density field of the last evaluated design vector.
C4_SnapshotsArePhysicalDensity ==
    /\ Len(frames) = Len(obj_xs)
    /\ \A k \in 1 .. Len(frames) : SameField(frames[k], physical_density(obj_xs[k], cfg))
    /\ pc = "o_returned" =>
           SameField(result[2], physical_density(obj_xs[Len(obj_xs)], cfg))

\* C6: the optimizer's maximum evaluation count is args.opt_steps, the number
\* of objective evaluations and the length of the returned losses never exceed
\* it, and fast_stopt returns without reading any external input.
C6_BudgetBoundsRun ==
    /\ pc \in {"o_optimizing", "o_returned"} => maxeval = cfg.opt_steps
    /\ nevals <= cfg.opt_steps
    /\ pc = "o_returned" => (Len(result[1]) <= cfg.opt_steps /\ pdb_inputs = 0)

====
